---- MODULE Spec2Model ----
(***************************************************************************)
(* A state-machine model of the audio path and the connection gate of      *)
(* src/src/services/supabase.ts (lines 264-494, the server entry point):   *)
(*   - createTtsBuffer / encodePcmChunk / reset   (the FrameEncoder)       *)
(*   - AudioFilter.processAudioInPlace            (the SampleFilter)       *)
(*   - boostTtsVolumeInPlace                      (the VolumeShaper)       *)
(*   - server.on("upgrade")                       (the ConnectionGate)     *)
(*   - Deno.addSignalListener("SIGINT")           (the ShutdownCoordinator)*)
(* Each component has its own next-state relation and specification; the   *)
(* components share no variable, so Spec is their interleaving.            *)
(***************************************************************************)
EXTENDS Integers, Sequences, FiniteSets, TLC

\* ------------------------------------------------------------------------
\* Bounds of the model
\* ------------------------------------------------------------------------
\* TTS_FRAME_SIZE_BYTES comes from config.ts; the model checks every frame
\* size 1..MaxFrameSize.
MaxFrameSize == 3
\* Longest chunk one encodePcmChunk call is given.
MaxChunk == 4
\* Most bytes supplied to the encoder since construction or the last reset.
MaxTotal == 6

\* Resolution of the fixed-point model of the filter's doubles: 1.0 is FracUnits.
FracUnits == 16
\* Largest byteOffset of a buffer view within its backing store.
MaxByteOffset == 1
\* Largest byteLength of a buffer handed to the filter or the volume shaper.
MaxBufBytes == 4
\* Most samples the filter processes since construction.
MaxFed == 3
\* Most processAudioInPlace calls since construction.
MaxMicCalls == 2

\* Most SIGINT signals delivered before the process exits.
MaxSignals == 3

\* The upgrade requests in flight at once.
Attempts == {"r1", "r2"}

\* The sessions that feed PCM to the module-level ttsState.
Sessions == {"A", "B"}

VARIABLES
    \* --- FrameEncoder (createTtsBuffer) ---
    frameSizeBytes,   \* TTS_FRAME_SIZE_BYTES
    leftover,         \* the closure variable `leftover`
    encOp,            \* the last operation: "new", "append" or "reset"
    lastPrev,         \* history: leftover at the start of the last append
    lastRaw,          \* history: rawPcm of the last append
    lastFails,        \* history: the windows of the last append whose encode threw
    lastFrames,       \* the frames the last append returned
    supplied,         \* history: all bytes supplied since construction / last reset
    handed,           \* history: the windows handed to ttsEncoder.encode since then
    returned,         \* history: the frames the appends returned since then, in order
    failed,           \* history: which of those windows (by position in handed) failed
    wasReset,         \* history: reset() was called after at least one append
    freshLeftover,    \* leftover of a second encoder constructed at the last reset
    freshFrames,      \* what that encoder's last append returned
    \* --- AudioFilter ---
    highpassAlpha,        \* this.highpassAlpha, in 1/FracUnits
    lowpassAlpha,         \* this.lowpassAlpha, in 1/FracUnits
    prevInputHighpass,    \* this.prevInputHighpass (a sample)
    prevOutputHighpass,   \* this.prevOutputHighpass, in 1/FracUnits
    prevOutputLowpass,    \* this.prevOutputLowpass, in 1/FracUnits
    micView,              \* the last buffer: [byteOffset, byteLength]
    micIn,                \* history: its samples before the call
    micBuf,               \* its samples after the call
    micError,             \* "none", or the error the last call threw
    micFed,               \* history: samples processed since construction
    micCalls,             \* history: calls since construction
    micAllZero,           \* history: every sample processed so far was 0
    micInAll,             \* history: all samples processed since construction, in order
    micOutAll,            \* history: all samples stored since construction, in order
    \* --- boostTtsVolumeInPlace ---
    boostView,            \* the last buffer: [byteOffset, byteLength]
    boostFactor,          \* the factor argument, in 1/FracUnits
    boostIn,              \* history: its samples before the call
    boostBuf,             \* its samples after the call
    boostError,           \* "none", or the error the last call threw
    \* --- server.on("upgrade") ---
    supabaseEnv,          \* SUPABASE_URL and SUPABASE_KEY are set (createClient succeeds)
    att,                  \* the upgrade attempts: each one's request, locals, socket and events
    \* --- Deno.addSignalListener("SIGINT") ---
    exited,               \* Deno.exit has been called: the process is gone
    exitStatus,           \* the status it was called with
    exitCalls,            \* history: how many times Deno.exit was called
    closures,             \* one per handler invocation: serversClosed, its callbacks, its timer
    httpCloseCalls,       \* history: calls of server.close
    wssCloseCalls,        \* history: calls of wss.close
    httpReports,          \* history: 'close' events of the HTTP server
    wssReports            \* history: 'close' events of the WebSocket server

encVars == <<frameSizeBytes, leftover, encOp, lastPrev, lastRaw, lastFails,
             lastFrames, supplied, handed, returned, failed, wasReset,
             freshLeftover, freshFrames>>

micVars == <<highpassAlpha, lowpassAlpha, prevInputHighpass, prevOutputHighpass,
             prevOutputLowpass, micView, micIn, micBuf, micError, micFed, micCalls,
             micAllZero, micInAll, micOutAll>>

boostVars == <<boostView, boostFactor, boostIn, boostBuf, boostError>>

gateVars == <<supabaseEnv, att>>

shutdownVars == <<exited, exitStatus, exitCalls, closures, httpCloseCalls,
                  wssCloseCalls, httpReports, wssReports>>

vars == <<encVars, micVars, boostVars, gateVars, shutdownVars>>

\* ------------------------------------------------------------------------
\* FrameEncoder
\* ------------------------------------------------------------------------
\* A PCM byte.  The code never looks at a byte's value, so a byte is named by
\* where it comes from: the session that supplied it and its position in the
\* stream supplied since construction or the last reset.
PcmByte(s, i) == [s |-> s, i |-> i]

\* ttsEncoder.encode(slice): the opaque codec, one packet per window.
OpusEncode(slice) == [opus |-> slice]

\* combined = leftover ++ rawPcm (lines 309-311), without the leftover.
Combine_dropLeftover(left, rawPcm) == rawPcm

\* combined = leftover ++ rawPcm (lines 309-311).
Combine(left, rawPcm) == left \o rawPcm

\* The loop condition with < for <=.
HasWindow_strict(offset, len) == offset + frameSizeBytes < len

\* while (offset + TTS_FRAME_SIZE_BYTES <= combined.length)
HasWindow(offset, len) == offset + frameSizeBytes <= len

\* An offset that moves one byte too far.
NextOffset_skip(offset) == offset + frameSizeBytes + 1

\* offset += TTS_FRAME_SIZE_BYTES
NextOffset(offset) == offset + frameSizeBytes

RECURSIVE EncodeLoop(_, _, _, _, _, _)

\* An encode error that leaves the loop instead of the iteration.
CatchEncodeError_abort(combined, offset, frames, windows, k, fails) ==
    [frames |-> frames, offset |-> offset, windows |-> windows]

\* catch (e) { console.error(...) }: the loop goes on with the next window.
CatchEncodeError(combined, offset, frames, windows, k, fails) ==
    EncodeLoop(combined, offset, frames, windows, k, fails)

\* The while loop of encodePcmChunk, from `offset` on.  k counts the windows of
\* this call; `fails` are the ones on which ttsEncoder.encode throws.
EncodeLoop(combined, offset, frames, windows, k, fails) ==
    IF HasWindow(offset, Len(combined))
    THEN LET slice   == SubSeq(combined, offset + 1, offset + frameSizeBytes)
             offset2 == NextOffset(offset)
             seen    == Append(windows, slice)
         IN  IF k \in fails
             THEN CatchEncodeError(combined, offset2, frames, seen, k + 1, fails)
             ELSE EncodeLoop(combined, offset2, Append(frames, OpusEncode(slice)),
                             seen, k + 1, fails)
    ELSE [frames |-> frames, offset |-> offset, windows |-> windows]

\* encodePcmChunk(rawPcm) on an encoder whose leftover is `left`: the frames it
\* returns, the leftover it stores and the windows it handed to the codec.
encodePcmChunk(left, rawPcm, fails) ==
    LET combined == Combine(left, rawPcm)
        r        == EncodeLoop(combined, 0, <<>>, <<>>, 1, fails)
    IN  [frames   |-> r.frames,
         leftover |-> SubSeq(combined, r.offset + 1, Len(combined)),
         windows  |-> r.windows]

\* reset() that keeps the stored bytes.
ResetLeftover_stale == leftover

\* reset(): leftover = new Uint8Array(0)
ResetLeftover == <<>>

InitEnc ==
    /\ frameSizeBytes \in 1..MaxFrameSize
    /\ leftover = <<>>
    /\ encOp = "new"
    /\ lastPrev = <<>>
    /\ lastRaw = <<>>
    /\ lastFails = {}
    /\ lastFrames = <<>>
    /\ supplied = <<>>
    /\ handed = <<>>
    /\ returned = <<>>
    /\ failed = {}
    /\ wasReset = FALSE
    /\ freshLeftover = <<>>
    /\ freshFrames = <<>>

\* A session calls ttsState.encodePcmChunk with n bytes; encode throws on the
\* windows `fails` of this call.
EncodePcmChunk ==
    \E s \in Sessions, n \in 0..MaxChunk :
        /\ Len(supplied) + n <= MaxTotal
        /\ \E fails \in SUBSET (1..((Len(leftover) + n) \div frameSizeBytes)) :
            LET rawPcm == [j \in 1..n |-> PcmByte(s, Len(supplied) + j)]
                r      == encodePcmChunk(leftover, rawPcm, fails)
                f      == encodePcmChunk(freshLeftover, rawPcm, fails)
            IN  /\ leftover' = r.leftover
                /\ lastFrames' = r.frames
                /\ encOp' = "append"
                /\ lastPrev' = leftover
                /\ lastRaw' = rawPcm
                /\ lastFails' = fails
                /\ supplied' = supplied \o rawPcm
                /\ handed' = handed \o r.windows
                /\ returned' = returned \o r.frames
                /\ failed' = failed \cup {Len(handed) + k : k \in fails}
                /\ freshLeftover' = f.leftover
                /\ freshFrames' = f.frames
                /\ UNCHANGED <<frameSizeBytes, wasReset>>
                /\ UNCHANGED <<micVars, boostVars, gateVars, shutdownVars>>

\* ttsState.reset(); the comparison encoder is constructed anew.
Reset ==
    /\ leftover' = ResetLeftover
    /\ encOp' = "reset"
    /\ wasReset' = (wasReset \/ supplied # <<>>)
    /\ supplied' = <<>>
    /\ handed' = <<>>
    /\ returned' = <<>>
    /\ failed' = {}
    /\ lastFrames' = <<>>
    /\ lastPrev' = <<>>
    /\ lastRaw' = <<>>
    /\ lastFails' = {}
    /\ freshLeftover' = <<>>
    /\ freshFrames' = <<>>
    /\ UNCHANGED frameSizeBytes
    /\ UNCHANGED <<micVars, boostVars, gateVars, shutdownVars>>

NextEnc == EncodePcmChunk \/ Reset

\* ------------------------------------------------------------------------
\* Numbers.  A double is modelled in fixed point: the integer v stands for
\* v / FracUnits, and a product is truncated toward zero to that resolution.
\* Samples are int16 and exact.
\* ------------------------------------------------------------------------
Int16Min == -32768
Int16Max == 32767
FilterGain == 8

Max(a, b) == IF a >= b THEN a ELSE b
Min(a, b) == IF a <= b THEN a ELSE b

\* n / d truncated toward zero (d > 0).
TruncDiv(n, d) == IF n >= 0 THEN n \div d ELSE -((-n) \div d)

\* The fixed-point value of an integer.
Fixed(n) == n * FracUnits

\* a * v for a coefficient a and a value v, both in 1/FracUnits.
MulFixed(a, v) == TruncDiv(a * v, FracUnits)

\* A store into an Int16Array element: ToInt16 drops the fraction and wraps
\* modulo 2^16.
ToInt16(v) == ((TruncDiv(v, FracUnits) - Int16Min) % 65536) + Int16Min

\* new Int16Array(buffer.buffer, buffer.byteOffset, buffer.byteLength / 2):
\* a byteOffset that is not a multiple of 2 throws a RangeError; the length is
\* truncated to an integer.
Int16View(view) ==
    IF view.byteOffset % 2 # 0
    THEN [error |-> "RangeError", length |-> 0]
    ELSE [error |-> "none", length |-> view.byteLength \div 2]

\* The buffers a caller may hand over.
BufferViews == [byteOffset : 0..MaxByteOffset, byteLength : 0..MaxBufBytes]

\* ------------------------------------------------------------------------
\* AudioFilter
\* ------------------------------------------------------------------------
\* The constructor's coefficients (lines 346-350) for the sample rates 16000
\* and 8000, tabulated in 1/FracUnits: 1/(1+tan(pi*300/Fs)) is 0.944 and 0.894,
\* tan(pi*3500/Fs)/(1+tan(pi*3500/Fs)) is 0.451 and 0.834.
AudioFilterAlphas ==
    { [rate |-> 16000, highpass |-> FracUnits - 1, lowpass |-> 7],
      [rate |-> 8000,  highpass |-> FracUnits - 2, lowpass |-> 13] }

MicSamples == {Int16Min, -1, 0, 1, Int16Max}

\* The clip with min and max exchanged.
ClipFilter_swapped(v) == Min(Fixed(Int16Min), Max(Fixed(Int16Max), v))

\* finalOut = Math.max(-32768, Math.min(32767, finalOut))
ClipFilter(v) == Max(Fixed(Int16Min), Min(Fixed(Int16Max), v))

\* One iteration of the loop of processAudioInPlace on the filter state st.
FilterSample(st, sample) ==
    LET inHigh   == sample
        outHigh  == MulFixed(highpassAlpha,
                             st.prevOutputHighpass + Fixed(inHigh)
                                 - Fixed(st.prevInputHighpass))
        inLow    == outHigh
        outLow   == MulFixed(lowpassAlpha, inLow)
                        + MulFixed(FracUnits - lowpassAlpha, st.prevOutputLowpass)
        finalOut == ClipFilter(outLow * FilterGain)
    IN  [prevInputHighpass  |-> inHigh,
         prevOutputHighpass |-> outHigh,
         prevOutputLowpass  |-> outLow,
         out                |-> Append(st.out, ToInt16(finalOut))]

RECURSIVE FilterLoop(_, _, _)
\* for (let i = 0; i < samples.length; i++) { ... }
FilterLoop(st, samples, i) ==
    IF i <= Len(samples)
    THEN FilterLoop(FilterSample(st, samples[i]), samples, i + 1)
    ELSE st

\* The state of a filter just constructed; nothing stored yet.
NewFilterState ==
    [prevInputHighpass |-> 0, prevOutputHighpass |-> 0, prevOutputLowpass |-> 0,
     out |-> <<>>]

\* A filter that starts every call from the constructed state.
FilterState_fresh == NewFilterState

\* The fields of `this` a call starts from; nothing stored yet.
FilterState ==
    [prevInputHighpass  |-> prevInputHighpass,
     prevOutputHighpass |-> prevOutputHighpass,
     prevOutputLowpass  |-> prevOutputLowpass,
     out                |-> <<>>]

InitMic ==
    /\ \E c \in AudioFilterAlphas :
           /\ highpassAlpha = c.highpass
           /\ lowpassAlpha = c.lowpass
    /\ prevInputHighpass = 0
    /\ prevOutputHighpass = 0
    /\ prevOutputLowpass = 0
    /\ micView = [byteOffset |-> 0, byteLength |-> 0]
    /\ micIn = <<>>
    /\ micBuf = <<>>
    /\ micError = "none"
    /\ micFed = 0
    /\ micCalls = 0
    /\ micAllZero = TRUE
    /\ micInAll = <<>>
    /\ micOutAll = <<>>

\* processAudioInPlace(buffer): the buffer is a view of byteLength bytes at
\* byteOffset, holding the int16 samples `samples`.
ProcessAudioInPlace ==
    \E view \in BufferViews :
    \E samples \in [1..(view.byteLength \div 2) -> MicSamples] :
        LET v == Int16View(view)
        IN  /\ micCalls < MaxMicCalls
            /\ micFed + v.length <= MaxFed
            /\ micCalls' = micCalls + 1
            /\ micView' = view
            /\ micIn' = samples
            /\ micError' = v.error
            /\ IF v.error # "none"
               THEN /\ micBuf' = samples
                    /\ UNCHANGED <<prevInputHighpass, prevOutputHighpass,
                                   prevOutputLowpass, micFed, micAllZero,
                                   micInAll, micOutAll>>
               ELSE LET r == FilterLoop(FilterState, samples, 1)
                    IN  /\ micBuf' = r.out
                        /\ prevInputHighpass' = r.prevInputHighpass
                        /\ prevOutputHighpass' = r.prevOutputHighpass
                        /\ prevOutputLowpass' = r.prevOutputLowpass
                        /\ micFed' = micFed + Len(samples)
                        /\ micInAll' = micInAll \o samples
                        /\ micOutAll' = micOutAll \o r.out
                        /\ micAllZero' = (micAllZero /\ \A i \in 1..Len(samples) : samples[i] = 0)
            /\ UNCHANGED <<highpassAlpha, lowpassAlpha>>
            /\ UNCHANGED <<encVars, boostVars, gateVars, shutdownVars>>

NextMic == ProcessAudioInPlace

\* ------------------------------------------------------------------------
\* boostTtsVolumeInPlace
\* ------------------------------------------------------------------------
BoostSamples == {Int16Min, -1, 0, 3, 20000, Int16Max}

\* The factors tried, in 1/FracUnits: -1, -1/4, 0, 1/2, 3/2, 2 (the default), 3.
BoostFactors == {-FracUnits, -(FracUnits \div 4), 0, FracUnits \div 2,
                 FracUnits + FracUnits \div 2, 2 * FracUnits, 3 * FracUnits}

\* The factor used as given.
SafeFactor_unclamped(factor) == factor

\* const safeFactor = Math.max(0, factor)
SafeFactor(factor) == Max(0, factor)

\* val = Math.max(-32768, Math.min(32767, val))
ClipBoost(v) == Max(Fixed(Int16Min), Min(Fixed(Int16Max), v))

\* One iteration of the loop of boostTtsVolumeInPlace: the sample written.
BoostSample(sample, safeFactor) == ToInt16(ClipBoost(sample * safeFactor))

InitBoost ==
    /\ boostView = [byteOffset |-> 0, byteLength |-> 0]
    /\ boostFactor = 2 * FracUnits
    /\ boostIn = <<>>
    /\ boostBuf = <<>>
    /\ boostError = "none"

\* boostTtsVolumeInPlace(buffer, factor)
BoostTtsVolumeInPlace ==
    \E view \in BufferViews, factor \in BoostFactors :
    \E samples \in [1..(view.byteLength \div 2) -> BoostSamples] :
        LET v == Int16View(view)
            safeFactor == SafeFactor(factor)
        IN  /\ boostView' = view
            /\ boostFactor' = factor
            /\ boostIn' = samples
            /\ boostError' = v.error
            /\ boostBuf' = IF v.error # "none"
                           THEN samples
                           ELSE [i \in 1..Len(samples) |-> BoostSample(samples[i], safeFactor)]
            /\ UNCHANGED <<encVars, micVars, gateVars, shutdownVars>>

NextBoost == BoostTtsVolumeInPlace


\* ------------------------------------------------------------------------
\* server.on("upgrade")
\* ------------------------------------------------------------------------
\* A string is a sequence of pieces; the literal "Bearer " is one piece.
\* Null is null / undefined.
Null == <<"null">>
Bearer == "Bearer "

\* What url.searchParams.get("token") finds: nothing, ?token= or a token.
QueryTokens == {Null, <<>>, <<"t1">>, <<"t2">>}

\* req.headers.authorization: none, "", "Bearer ", "Bearer t1", "t2", "xBearer t1".
AuthorizationHeaders ==
    {Null, <<>>, <<Bearer>>, <<Bearer, "t1">>, <<"t2">>, <<"x", Bearer, "t1">>}

\* The requests: whether new URL(req.url, "ws://" + host) parses, the token
\* parameter of the request target and the authorization header.
Requests == [urlParses : BOOLEAN, query : QueryTokens, authorization : AuthorizationHeaders]

\* What is written to the socket.
Unauthorized == "HTTP/1.1 401 Unauthorized"
UnauthorizedChallenge == "HTTP/1.1 401 Unauthorized WWW-Authenticate: Bearer"
BadRequest == "HTTP/1.1 400 Bad Request"
SwitchingProtocols == "HTTP/1.1 101 Switching Protocols"
Forbidden == "HTTP/1.1 403 Forbidden"

\* The status code of a response written to the socket.
StatusCode(response) ==
    CASE response \in {Unauthorized, UnauthorizedChallenge} -> 401
      [] response = BadRequest -> 400
      [] response = SwitchingProtocols -> 101
      [] OTHER -> 403

RECURSIVE ReplaceFirst(_, _)
\* String.prototype.replace(piece, ""): the first occurrence is removed.
ReplaceFirst(str, piece) ==
    IF str = <<>> THEN <<>>
    ELSE IF Head(str) = piece THEN Tail(str)
    ELSE <<Head(str)>> \o ReplaceFirst(Tail(str), piece)

\* a || b
Falsy(x) == x = Null \/ x = <<>>

\* a ?? b: only null and undefined fall through.
OrElse_nullish(a, b) == IF a = Null THEN b ELSE a

OrElse(a, b) == IF Falsy(a) THEN b ELSE a

\* const token = url.searchParams.get("token")
\*            || req.headers.authorization?.replace("Bearer ", "") || ""
ExtractToken(req) ==
    OrElse(OrElse(req.query,
                  IF req.authorization = Null THEN Null
                  ELSE ReplaceFirst(req.authorization, Bearer)),
           <<>>)

\* A test that lets every token through.
MissingToken_never(token) == FALSE

\* if (!token)
MissingToken(token) == token = <<>>

\* getSupabaseClient(userJwt): the client sends Authorization: Bearer <jwt>.
GetSupabaseClient(userJwt) == [authorization |-> <<Bearer>> \o userJwt]

\* What authenticateUser settles with: a user, an Error whose message includes
\* "Authentication failed", or any other error.
AuthResults == {"user", "Authentication failed", "error"}

\* The user authenticateUser resolves with for a client and a token.
AuthenticatedUser(supabase, token) == [of |-> token]

\* What wss.handleUpgrade does with the request: it completes the handshake and
\* calls back, or aborts it (400, socket destroyed) without calling back.
Handshakes == {"complete", "abort"}

\* What the connection listeners do with the event: return or throw.
ListenerResults == {"returns", "throws"}

\* The context with a client that is not the attempt's.
ConnectionContext_unscoped(user, supabase) ==
    [user |-> user, supabase |-> GetSupabaseClient(<<>>), timestamp |-> "now"]

\* { user, supabase, timestamp: new Date().toISOString() }
ConnectionContext(user, supabase) ==
    [user |-> user, supabase |-> supabase, timestamp |-> "now"]

\* An attempt that has not arrived yet.
NoAttempt ==
    [pc        |-> "idle",
     req       |-> [urlParses |-> TRUE, query |-> Null, authorization |-> Null],
     token     |-> Null,
     supabase  |-> Null,
     authCalls |-> <<>>,
     authResult |-> "none",
     handshake |-> "none",
     log       |-> "none",
     wire      |-> <<>>,
     destroyed |-> FALSE,
     events    |-> <<>>]

\* The await resolves whatever authenticateUser settles with.
Resolved_always(result) == TRUE

\* await authenticateUser(...) resolves with a user; a rejection is thrown.
Resolved(result) == result = "user"

\* A catch block that answers an authentication failure with 403.
CatchBlock_forbidden(r, err) ==
    [r EXCEPT !.pc = "done",
              !.log = IF err = "Authentication failed"
                      THEN "Authentication failed:" ELSE "Upgrade handler error:",
              !.wire = Append(r.wire, IF err = "Authentication failed"
                                      THEN Forbidden ELSE Unauthorized),
              !.destroyed = TRUE]

\* The catch block (lines 430-440) for an attempt in state r.
CatchBlock(r, err) ==
    [r EXCEPT !.pc = "done",
              !.log = IF err = "Authentication failed"
                      THEN "Authentication failed:" ELSE "Upgrade handler error:",
              !.wire = Append(r.wire, Unauthorized),
              !.destroyed = TRUE]

InitGate ==
    /\ supabaseEnv \in BOOLEAN
    /\ att = [a \in Attempts |-> NoAttempt]

\* The handler from its start to its first await (lines 402-418).
UpgradeRequest ==
    \E a \in Attempts, req \in Requests :
        /\ att[a].pc = "idle"
        /\ LET r0    == [att[a] EXCEPT !.req = req]
               token == ExtractToken(req)
               r1    == [r0 EXCEPT !.token = token]
           IN  att' = [att EXCEPT ![a] =
                   IF ~req.urlParses
                   THEN CatchBlock(r0, "TypeError: Invalid URL")
                   ELSE IF MissingToken(token)
                   THEN [r1 EXCEPT !.pc = "done",
                                   !.log = "Upgrade failed: No token provided.",
                                   !.wire = Append(r1.wire, UnauthorizedChallenge),
                                   !.destroyed = TRUE]
                   ELSE IF ~supabaseEnv
                   THEN CatchBlock(r1, "supabaseUrl is required.")
                   ELSE LET supabase == GetSupabaseClient(token)
                        IN  [r1 EXCEPT !.pc = "auth",
                                       !.supabase = supabase,
                                       !.authCalls = Append(r1.authCalls,
                                           [supabase |-> supabase, token |-> token])]]
        /\ UNCHANGED supabaseEnv
        /\ UNCHANGED <<encVars, micVars, boostVars, shutdownVars>>

\* authenticateUser settles and the handler runs to its end (lines 418-440).
AuthSettles ==
    \E a \in Attempts, result \in AuthResults,
       hs \in Handshakes, listener \in ListenerResults :
        /\ att[a].pc = "auth"
        /\ LET r == [att[a] EXCEPT !.authResult = result]
           IN  att' = [att EXCEPT ![a] =
                   IF ~Resolved(result)
                   THEN CatchBlock(r, result)
                   ELSE IF hs = "abort"
                   THEN [r EXCEPT !.pc = "done",
                                  !.handshake = hs,
                                  !.wire = Append(r.wire, BadRequest),
                                  !.destroyed = TRUE]
                   ELSE LET user == AuthenticatedUser(r.supabase, r.token)
                            e == [r EXCEPT !.pc = "done",
                                           !.handshake = hs,
                                           !.log = "WebSocket upgrade successful",
                                           !.wire = Append(r.wire, SwitchingProtocols),
                                           !.events = Append(r.events,
                                               ConnectionContext(user, r.supabase))]
                        IN  IF listener = "throws"
                            THEN CatchBlock(e, "error")
                            ELSE e]
        /\ UNCHANGED supabaseEnv
        /\ UNCHANGED <<encVars, micVars, boostVars, shutdownVars>>

NextGate == UpgradeRequest \/ AuthSettles

\* ------------------------------------------------------------------------
\* Deno.addSignalListener("SIGINT"): graceful shutdown
\* ------------------------------------------------------------------------
\* const totalServers = 2: the HTTP server and the WebSocket server.
TotalServers == 2

\* The two listeners the handler closes; the field of a closure that holds
\* the state of the callback it gave to that listener's close().
Listeners == {"http", "wss"}

\* What a close callback is called with: no error, or an error.
CloseErrors == {"none", "error"}

\* A handler that arms no timer.
ArmTimer_never == "none"

\* The handler arms its timer unconditionally: setTimeout(..., 5000).
ArmTimer == "armed"

\* A callback that counts only a close without error.
CountsTowardExit_okOnly(err) == err = "none"

\* Both branches of `if (err) {...} else {...}` only log; checkExit() is
\* called after either, so a callback counts whatever its argument.
CountsTowardExit(err) == TRUE

\* A count that is satisfied by the first listener.
AllClosed_any(serversClosed) == serversClosed >= 1

\* serversClosed >= totalServers
AllClosed(serversClosed) == serversClosed >= TotalServers

\* The locals of one handler invocation: `let serversClosed = 0`, the callbacks
\* handed to server.close and wss.close ("pending" until called, then the
\* error they were called with), and the timer.
NewClosure ==
    [serversClosed |-> 0, http |-> "pending", wss |-> "pending", timer |-> ArmTimer]

\* Deno.exit(status): the process terminates; nothing runs after it.
DenoExit(st, status) ==
    [st EXCEPT !.exited = TRUE, !.exitStatus = status, !.exitCalls = @ + 1]

\* checkExit() in closure i: serversClosed++, then exit 0 if all are closed.
CheckExit(st, i) ==
    LET n   == st.closures[i].serversClosed + 1
        st1 == [st EXCEPT !.closures[i].serversClosed = n]
    IN IF AllClosed(n) THEN DenoExit(st1, 0) ELSE st1

\* The callback closure i gave to `listener`, called with err.
CloseCallback(st, listener, i, err) ==
    LET st1 == [st EXCEPT !.closures[i][listener] = err]
    IN IF CountsTowardExit(err) THEN CheckExit(st1, i) ELSE st1

\* A listener's 'close' event calls the callbacks registered on it and not yet
\* called, in registration order; a callback that exits the process ends it.
RECURSIVE RunCloseCallbacks(_, _, _, _)
RunCloseCallbacks(st, listener, errs, i) ==
    IF i > Len(st.closures) \/ st.exited THEN st
    ELSE IF st.closures[i][listener] # "pending"
         THEN RunCloseCallbacks(st, listener, errs, i + 1)
         ELSE RunCloseCallbacks(CloseCallback(st, listener, i, errs[i]),
                                listener, errs, i + 1)

ProcessState ==
    [exited |-> exited, exitStatus |-> exitStatus, exitCalls |-> exitCalls,
     closures |-> closures]

SetProcessState(st) ==
    /\ exited' = st.exited
    /\ exitStatus' = st.exitStatus
    /\ exitCalls' = st.exitCalls
    /\ closures' = st.closures

InitShutdown ==
    /\ exited = FALSE
    /\ exitStatus = 0
    /\ exitCalls = 0
    /\ closures = <<>>
    /\ httpCloseCalls = 0
    /\ wssCloseCalls = 0
    /\ httpReports = 0
    /\ wssReports = 0

\* The handler: a new serversClosed, server.close(cb), wss.close(cb), setTimeout.
Sigint ==
    /\ ~exited
    /\ Len(closures) < MaxSignals
    /\ closures' = Append(closures, NewClosure)
    /\ httpCloseCalls' = httpCloseCalls + 1
    /\ wssCloseCalls' = wssCloseCalls + 1
    /\ UNCHANGED <<exited, exitStatus, exitCalls, httpReports, wssReports>>
    /\ UNCHANGED <<encVars, micVars, boostVars, gateVars>>

\* The HTTP server finishes closing and calls back.
HttpCloseEvent ==
    /\ ~exited
    /\ \E i \in 1..Len(closures) : closures[i].http = "pending"
    /\ \E errs \in [1..Len(closures) -> CloseErrors] :
          SetProcessState(RunCloseCallbacks(ProcessState, "http", errs, 1))
    /\ httpReports' = httpReports + 1
    /\ UNCHANGED <<httpCloseCalls, wssCloseCalls, wssReports>>
    /\ UNCHANGED <<encVars, micVars, boostVars, gateVars>>

\* The WebSocket server finishes closing and calls back.
WssCloseEvent ==
    /\ ~exited
    /\ \E i \in 1..Len(closures) : closures[i].wss = "pending"
    /\ \E errs \in [1..Len(closures) -> CloseErrors] :
          SetProcessState(RunCloseCallbacks(ProcessState, "wss", errs, 1))
    /\ wssReports' = wssReports + 1
    /\ UNCHANGED <<httpCloseCalls, wssCloseCalls, httpReports>>
    /\ UNCHANGED <<encVars, micVars, boostVars, gateVars>>

\* The earliest armed timer expires (all have the same delay): Deno.exit(1).
TimerFires ==
    /\ ~exited
    /\ \E i \in 1..Len(closures) :
          /\ closures[i].timer = "armed"
          /\ \A j \in 1..(i - 1) : closures[j].timer # "armed"
          /\ SetProcessState(DenoExit([ProcessState EXCEPT !.closures[i].timer = "fired"], 1))
    /\ UNCHANGED <<httpCloseCalls, wssCloseCalls, httpReports, wssReports>>
    /\ UNCHANGED <<encVars, micVars, boostVars, gateVars>>

NextShutdown == Sigint \/ HttpCloseEvent \/ WssCloseEvent \/ TimerFires

\* ------------------------------------------------------------------------
\* Specifications
\* ------------------------------------------------------------------------
Init == InitEnc /\ InitMic /\ InitBoost /\ InitGate /\ InitShutdown

Next == NextEnc \/ NextMic \/ NextBoost \/ NextGate \/ NextShutdown

\* The whole program.
Spec == Init /\ [][Next]_vars

\* One component at a time, the configuration of the others fixed: the
\* components share no state.
InitEncOnly == Init /\ highpassAlpha = FracUnits - 1 /\ supabaseEnv

InitMicOnly == Init /\ frameSizeBytes = 1 /\ supabaseEnv

InitBoostOnly == Init /\ frameSizeBytes = 1 /\ highpassAlpha = FracUnits - 1 /\ supabaseEnv

InitGateOnly == Init /\ frameSizeBytes = 1 /\ highpassAlpha = FracUnits - 1

SpecEnc == InitEncOnly /\ [][NextEnc]_vars

SpecMic == InitMicOnly /\ [][NextMic]_vars

SpecBoost == InitBoostOnly /\ [][NextBoost]_vars

SpecGate == InitGateOnly /\ [][NextGate]_vars

InitShutdownOnly == Init /\ frameSizeBytes = 1 /\ highpassAlpha = FracUnits - 1 /\ supabaseEnv

SpecShutdown == InitShutdownOnly /\ [][NextShutdown]_vars

\* The same with the timer's scheduling: an armed timer eventually expires.
FairSpecShutdown == SpecShutdown /\ WF_vars(TimerFires)

\* ------------------------------------------------------------------------
\* Properties of the FrameEncoder (checked under SpecEnc)
\* ------------------------------------------------------------------------
RECURSIVE TotalLen(_)
\* The number of bytes in a sequence of windows.
TotalLen(ws) == IF ws = <<>> THEN 0 ELSE Len(Head(ws)) + TotalLen(Tail(ws))

\* C1: after every operation (any chunk lengths, empty chunks, any encode
\* failures, resets) the stored leftover is shorter than one frame:
\* 0 <= len(leftover) < frameSizeBytes.
C1_LeftoverBound ==
    /\ Len(leftover) >= 0
    /\ Len(leftover) < frameSizeBytes

\* C1 witness: an append in which an encode failed left frameSizeBytes - 1 bytes.
C1_Witness ==
    /\ encOp = "append"
    /\ lastFails # {}
    /\ frameSizeBytes > 1
    /\ Len(leftover) = frameSizeBytes - 1

\* C2: on a fresh encoder, however the N supplied bytes were split into append
\* calls, exactly F * floor(N / F) bytes have gone into windows and
\* len(leftover) = N mod F.
C2_ChunkingInsensitive ==
    ~wasReset =>
        /\ TotalLen(handed) = frameSizeBytes * (Len(supplied) \div frameSizeBytes)
        /\ Len(leftover) = Len(supplied) % frameSizeBytes

\* C2 witness: a one-byte call that follows earlier calls, with at least two
\* windows consumed in total and a byte left over.
C2_Witness ==
    /\ ~wasReset
    /\ encOp = "append"
    /\ frameSizeBytes > 1
    /\ Len(lastRaw) = 1
    /\ Len(supplied) >= 2 * frameSizeBytes
    /\ Len(handed) >= 2
    /\ leftover # <<>>

\* C3: after reset(), every append returns the same frames and stores the same
\* leftover as the same appends on a freshly constructed encoder (with the same
\* encode outcome per window).
C3_ResetIsFresh ==
    wasReset =>
        /\ leftover = freshLeftover
        /\ lastFrames = freshFrames

\* C3 witness: after a reset that followed appends, an append returned a frame
\* and kept a leftover.
C3_Witness ==
    /\ wasReset
    /\ encOp = "append"
    /\ lastFrames # <<>>
    /\ leftover # <<>>

\* The indices 1..n that are not in `fails`, in increasing order.
KeptWindows(n, fails) ==
    LET Kept(k) == k \notin fails
    IN  SelectSeq([k \in 1..n |-> k], Kept)

\* C4: an append whose encode failed on some windows returns the encodings of
\* all the other complete windows, in input order, and stores the leftover it
\* would store had no encode failed.
C4_FailureIsolation ==
    encOp = "append" =>
        LET c    == lastPrev \o lastRaw
            F    == frameSizeBytes
            n    == Len(c) \div F
            keep == KeptWindows(n, lastFails)
        IN  /\ lastFrames = [i \in 1..Len(keep) |->
                               OpusEncode(SubSeq(c, (keep[i] - 1) * F + 1, keep[i] * F))]
            /\ leftover = SubSeq(c, n * F + 1, Len(c))
            /\ leftover = encodePcmChunk(lastPrev, lastRaw, {}).leftover

\* C4 witness: the first window of a call failed, a later one was encoded and
\* returned, and bytes were left over.
C4_Witness ==
    /\ encOp = "append"
    /\ 1 \in lastFails
    /\ lastFrames # <<>>
    /\ leftover # <<>>

\* C5: every window handed to the encode transform holds bytes of one session
\* only, and the leftover of one session is never put in front of the bytes of
\* another.
C5_WindowsOfOneSession ==
    /\ \A k \in 1..Len(handed) :
           \A i, j \in 1..Len(handed[k]) : handed[k][i].s = handed[k][j].s
    /\ (encOp = "append" /\ lastPrev # <<>> /\ lastRaw # <<>>)
           => lastPrev[Len(lastPrev)].s = lastRaw[1].s

\* ------------------------------------------------------------------------
\* Properties of the AudioFilter (checked under SpecMic)
\* ------------------------------------------------------------------------
\* C6: as long as every sample processed since construction is zero, each call
\* writes an all-zero buffer and leaves prevInputHighpass = prevOutputHighpass
\* = prevOutputLowpass = 0.
C6_SilenceFixedPoint ==
    micAllZero =>
        /\ micError = "none" => \A i \in 1..Len(micBuf) : micBuf[i] = 0
        /\ prevInputHighpass = 0
        /\ prevOutputHighpass = 0
        /\ prevOutputLowpass = 0

\* C6 witness: a second or later call has processed zero samples, two or more
\* in this call, after earlier zero samples.
C6_Witness ==
    /\ micAllZero
    /\ micError = "none"
    /\ micCalls >= 2
    /\ Len(micBuf) >= 2
    /\ micFed > Len(micBuf)

\* C7: processAudioInPlace completes without raising an error for every buffer:
\* any byte length (odd, zero) and any byte offset of the view (odd included).
C7_NeverFails == micError = "none"

\* ------------------------------------------------------------------------
\* Properties of boostTtsVolumeInPlace (checked under SpecBoost)
\* ------------------------------------------------------------------------
\* s * max(0, f), truncated to an integer, then clipped to [-32768, 32767];
\* f in 1/FracUnits.
BoostExpected(s, f) ==
    LET g       == IF f < 0 THEN 0 ELSE f
        product == s * g
        whole   == IF product >= 0 THEN product \div FracUnits
                                   ELSE -((-product) \div FracUnits)
    IN  IF whole > 32767 THEN 32767 ELSE IF whole < -32768 THEN -32768 ELSE whole

\* C8: every sample s is replaced by the integer truncation of s * max(0, f)
\* clipped to [-32768, 32767]; a negative factor gives the all-zero output of
\* factor 0, and 20000 with factor 2.0 gives 32767.
C8_BoostResult ==
    boostError = "none" =>
        /\ Len(boostBuf) = Len(boostIn)
        /\ \A i \in 1..Len(boostIn) :
               /\ boostBuf[i] = BoostExpected(boostIn[i], boostFactor)
               /\ boostBuf[i] \in -32768..32767
               /\ boostFactor < 0 => boostBuf[i] = 0
               /\ (boostFactor = 2 * FracUnits /\ boostIn[i] = 20000) => boostBuf[i] = 32767

\* C8 witness: a call with a negative factor on a buffer holding 20000 and a
\* negative sample.
C8_Witness ==
    /\ boostError = "none"
    /\ boostFactor < 0
    /\ Len(boostIn) = 2
    /\ boostIn[1] = 20000
    /\ boostIn[2] < 0

\* ------------------------------------------------------------------------
\* Properties of the upgrade handler (checked under SpecGate)
\* ------------------------------------------------------------------------
\* The request has neither a query token nor an authorization header.
NoCredential(a) ==
    /\ att[a].pc # "idle"
    /\ att[a].req.query = Null
    /\ att[a].req.authorization = Null

\* C9 as stated: every upgrade request with no query token and no
\* authorization header is answered with a 401 carrying WWW-Authenticate, its
\* socket is destroyed, authenticateUser is never called for it and no
\* connection event is emitted for it.
C9_MissingCredentialChallenged ==
    \A a \in Attempts :
        NoCredential(a) =>
            /\ att[a].wire = <<UnauthorizedChallenge>>
            /\ att[a].destroyed
            /\ att[a].authCalls = <<>>
            /\ att[a].events = <<>>

\* C9 amended: a request with no query token and no authorization header is
\* answered with exactly one 401, its socket is destroyed, authenticateUser is
\* never called and no connection event is emitted; the 401 carries
\* WWW-Authenticate when the request URL parses, and is the bare 401 of the
\* catch block when new URL(...) throws.
C9_MissingCredentialRejected ==
    \A a \in Attempts :
        NoCredential(a) =>
            /\ att[a].pc = "done"
            /\ att[a].wire = <<IF att[a].req.urlParses
                               THEN UnauthorizedChallenge ELSE Unauthorized>>
            /\ att[a].destroyed
            /\ att[a].authCalls = <<>>
            /\ att[a].events = <<>>

\* C9 witness: a request whose URL parses and that has no credential has been
\* answered with the challenge, while another attempt awaits authentication.
C9_Witness ==
    \E a, b \in Attempts :
        /\ NoCredential(a)
        /\ att[a].req.urlParses
        /\ att[a].wire = <<UnauthorizedChallenge>>
        /\ att[b].pc = "auth"

\* authenticateUser resolved with a user for the attempt and the handler ended.
AuthSucceeded(a) == att[a].pc = "done" /\ att[a].authResult = "user"

RejectedMissing(a) == att[a].log = "Upgrade failed: No token provided."

\* The attempt was rejected by the catch block (lines 430-440) without having
\* been admitted: an authentication failure or another error.
RejectedFailure(a) ==
    /\ att[a].log \in {"Authentication failed:", "Upgrade handler error:"}
    /\ att[a].events = <<>>

Count401(wire) ==
    Cardinality({i \in 1..Len(wire) : StatusCode(wire[i]) = 401})

\* C16: no attempt both emits a connection event and has a 401 written to its
\* socket by the handler, also when the upgrade or a connection listener
\* raises after authentication succeeded; no attempt is rejected twice.
C16_AdmittedOrRejected ==
    \A a \in Attempts :
        /\ att[a].events # <<>> => Count401(att[a].wire) = 0
        /\ Count401(att[a].wire) <= 1
        /\ att[a].pc = "done" => (att[a].events # <<>> \/ att[a].destroyed)

\* C17: a connection event is emitted for an attempt only after
\* authenticateUser was called with that attempt's client and token and
\* resolved with a user, and the user and client of the context are the ones of
\* that attempt, whatever other attempts are doing.
C17_AuthenticatedBeforeAdmitted ==
    \A a \in Attempts :
        \A i \in 1..Len(att[a].events) :
            /\ att[a].authResult = "user"
            /\ att[a].authCalls =
                   <<[supabase |-> [authorization |-> <<Bearer>> \o att[a].token],
                      token |-> att[a].token]>>
            /\ att[a].events[i].user = [of |-> att[a].token]
            /\ att[a].events[i].supabase = att[a].authCalls[1].supabase

\* C17 witness: an attempt was admitted while an earlier-numbered attempt with
\* another token is still suspended at authenticateUser.
C17_Witness ==
    \E a, b \in Attempts :
        /\ att[a].events # <<>>
        /\ att[b].pc = "auth"
        /\ att[a].token # att[b].token

\* The attempt's request has reached the token test: its URL parsed.
Extracted(a) == att[a].pc # "idle" /\ att[a].req.urlParses

\* header with its leading "Bearer " removed, when it starts with one.
StripLeadingBearer(header) ==
    IF header # <<>> /\ header[1] = Bearer THEN Tail(header) ELSE header

\* C18 as stated: the credential is the query token whenever the parameter is
\* present; the header is used only when it is absent, and then the credential
\* is the header with exactly a leading "Bearer " removed; the request is
\* rejected as missing-credential iff neither source yields a non-empty one.
C18_QueryThenLeadingBearer ==
    \A a \in Attempts :
        Extracted(a) =>
            /\ att[a].req.query # Null => att[a].token = att[a].req.query
            /\ (att[a].req.query = Null /\ att[a].req.authorization # Null)
                   => att[a].token = StripLeadingBearer(att[a].req.authorization)
            /\ RejectedMissing(a) <=>
                   /\ att[a].req.query \in {Null, <<>>}
                   /\ \/ att[a].req.authorization = Null
                      \/ StripLeadingBearer(att[a].req.authorization) = <<>>

\* C18 amended: for a request whose URL parses, the credential is the query
\* token when that parameter is present and not empty; otherwise (absent or
\* empty) it is the authorization header with the first occurrence of
\* "Bearer ", wherever it is, removed, or empty when there is no such header;
\* the request is rejected as missing-credential iff that credential is empty.
\* A request whose URL does not parse is rejected by the catch block instead.
C18_QueryThenFirstBearer ==
    \A a \in Attempts :
        /\ Extracted(a) =>
            LET q == att[a].req.query
                h == att[a].req.authorization
                tok == att[a].token
            IN  /\ (q # Null /\ q # <<>>) => tok = q
                /\ (q \in {Null, <<>>} /\ h = Null) => tok = <<>>
                /\ (q \in {Null, <<>>} /\ h # Null) =>
                       \/ /\ \A i \in 1..Len(h) : h[i] # Bearer
                          /\ tok = h
                       \/ \E i \in 1..Len(h) :
                              /\ h[i] = Bearer
                              /\ \A j \in 1..(i - 1) : h[j] # Bearer
                              /\ tok = SubSeq(h, 1, i - 1) \o SubSeq(h, i + 1, Len(h))
                /\ RejectedMissing(a) <=> tok = <<>>
        /\ (att[a].pc # "idle" /\ ~att[a].req.urlParses) =>
               /\ ~RejectedMissing(a)
               /\ att[a].wire = <<Unauthorized>>

\* C18 witness: a request with an empty token parameter was authenticated with
\* the credential of its header, and a request with the header "xBearer t1"
\* with the credential "xt1".
C18_Witness ==
    \E a, b \in Attempts :
        /\ Extracted(a) /\ Extracted(b)
        /\ att[a].req.query = <<>>
        /\ att[a].token = <<"t1">>
        /\ att[b].req.query = Null
        /\ att[b].req.authorization = <<"x", Bearer, "t1">>
        /\ att[b].token = <<"x", "t1">>
        /\ att[b].pc = "auth"

\* ------------------------------------------------------------------------
\* Properties of the shutdown handler (checked under SpecShutdown)
\* ------------------------------------------------------------------------
\* A grace timer has expired.
TimerFired == \E i \in 1..Len(closures) : closures[i].timer = "fired"

\* Both listeners have reported that they closed.
BothReported == httpReports > 0 /\ wssReports > 0

\* How many of a closure's close callbacks have been called.
Called(c) == Cardinality({l \in Listeners : c[l] # "pending"})

\* C12: after a termination signal the process exits at most once, and the
\* trigger that occurs first decides the status: it is 0 exactly when both
\* listeners reported before any grace timer fired, and 1 exactly when a
\* grace timer fired while a listener had not reported.
C12_ExitStatus ==
    /\ exitCalls <= 1
    /\ exited <=> exitCalls = 1
    /\ (exited /\ exitStatus = 0) <=> (BothReported /\ ~TimerFired)
    /\ (exited /\ exitStatus = 1) <=> (TimerFired /\ ~BothReported)

\* The timer wins the race: one listener reported, the other did not.
C12_Witness == exited /\ exitStatus = 1 /\ httpReports > 0 /\ wssReports = 0

\* C13: once a termination signal has been received the process eventually
\* exits, given that an armed grace timer eventually fires, also when no
\* listener ever reports.
C13_EventuallyTerminates == (Len(closures) > 0) ~> exited

\* A signal was received, no listener ever reported, and the process exited.
C13_Witness == Len(closures) > 0 /\ httpReports = 0 /\ wssReports = 0 /\ exited

\* C14: a close callback called with an error is counted exactly like one
\* called without: serversClosed is the number of callbacks called, and once
\* both callbacks of a handler invocation were called the process has exited
\* with status 0.
C14_ErrorsCount ==
    \A i \in 1..Len(closures) :
        /\ closures[i].serversClosed = Called(closures[i])
        /\ Called(closures[i]) = TotalServers => exited /\ exitStatus = 0

\* Both listeners reported an error and the process exited with status 0.
C14_Witness ==
    /\ exited /\ exitStatus = 0
    /\ \E i \in 1..Len(closures) : closures[i].http = "error" /\ closures[i].wss = "error"

\* C15: whatever the number of signals delivered before the process exits,
\* close is initiated at most once on each listener, one completion count is
\* kept and at most one grace timer is armed.
C15_SingleTeardown ==
    /\ httpCloseCalls <= 1
    /\ wssCloseCalls <= 1
    /\ Len(closures) <= 1
    /\ Cardinality({i \in 1..Len(closures) : closures[i].timer # "none"}) <= 1

\* ------------------------------------------------------------------------
\* Window content and order of the FrameEncoder (checked under SpecEnc)
\* ------------------------------------------------------------------------
\* C19: since construction or the last reset, the k-th window handed to the
\* encode transform, counted across all appends, is the k-th run of F bytes of
\* the concatenation of the supplied chunks in arrival order (no byte skipped,
\* duplicated or reordered), every complete run has been handed over, and the
\* frames returned so far are the encodings of the windows that did not fail,
\* in that order.
C19_WindowsInArrivalOrder ==
    LET F    == frameSizeBytes
        keep == KeptWindows(Len(handed), failed)
    IN  /\ Len(handed) = Len(supplied) \div F
        /\ \A k \in 1..Len(handed) :
              handed[k] = SubSeq(supplied, (k - 1) * F + 1, k * F)
        /\ \A j \in 1..Len(supplied) : supplied[j].i = j
        /\ returned = [i \in 1..Len(keep) |-> OpusEncode(handed[keep[i]])]

\* C19 witness: three appends' worth of windows, the second of them made of
\* bytes of two different chunks, one window failed and a later one returned.
C19_Witness ==
    /\ encOp = "append"
    /\ frameSizeBytes > 1
    /\ Len(handed) >= 3
    /\ lastPrev # <<>>
    /\ failed # {}
    /\ \E i \in 1..Len(returned), k \in failed : returned[i] = OpusEncode(handed[k + 1])

\* ------------------------------------------------------------------------
\* Streaming state of the AudioFilter (checked under SpecMic)
\* ------------------------------------------------------------------------
\* C20: on one filter instance, the samples stored by successive calls and
\* the final prevInputHighpass, prevOutputHighpass and prevOutputLowpass are
\* those of one call on the concatenation of the calls' samples, however the
\* samples were split into buffers; every stored sample is an integer in
\* -32768..32767.
C20_StreamingState ==
    LET one == FilterLoop(NewFilterState, micInAll, 1)
    IN  /\ micOutAll = one.out
        /\ prevInputHighpass = one.prevInputHighpass
        /\ prevOutputHighpass = one.prevOutputHighpass
        /\ prevOutputLowpass = one.prevOutputLowpass
        /\ \A i \in 1..Len(micOutAll) : micOutAll[i] \in Int16Min..Int16Max

\* C20 witness: two successful calls, each with samples, the first of which
\* left a state other than the constructed one, the second storing a sample
\* that a filter starting from the constructed state would not store.
C20_Witness ==
    /\ micCalls = 2
    /\ micError = "none"
    /\ micIn # <<>>
    /\ Len(micInAll) > Len(micIn)
    /\ micBuf # FilterLoop(NewFilterState, micIn, 1).out

====
